---------------------------- MODULE Spec2Model ----------------------------
(***************************************************************************)
(* The subprocess JSON-RPC transport of mcp_client.py: MCPClient (one      *)
(* child process, a reader thread that feeds response_queue, and the       *)
(* blocking _send_request correlation loop), and the wrapper clients       *)
(* PokemonTCGMCPClient and PokeMCPClient built on it.                      *)
(*                                                                         *)
(* A caller thread runs from one blocking point to the next in one step:   *)
(* the blocking points are response_queue.get(timeout=...), process.wait() *)
(* in stop(), time.sleep() in search_cards, and every return to a caller.  *)
(* th[t].pc is the position of caller thread t and th[t].stack the return  *)
(* labels of its call chain.  Time is a tick counter that advances only    *)
(* while a caller is blocked in response_queue.get.                        *)
(***************************************************************************)
EXTENDS Integers, Sequences, FiniteSets, TLC

\* ------------------------------------------------------------------ bounds
\* Caller threads of the model; Spec runs thread 1 only.
Threads == {1, 2}
\* Child processes, each with its pipes and its reader thread, that exist at one
\* time: a slot is taken again once nothing of its last process is left.
MaxProcs == 2
\* Lines the children write to stdout in one behaviour.
MaxLines == 2
\* Largest request id a call may take (guards the start of an operation).
MaxId == 3
\* The budget of _send_request (timeout, 120 s) and the slice of one queue.get (5 s),
\* in ticks: the budget is longer than a slice and the last slice is cut short.
TimeoutTicks == 3
SliceTicks == 2

Procs == 1..MaxProcs
Ids == 1..MaxId
\* what a response line holds besides its id.  The reader and _send_request pass
\* it on unread, so it is drawn where call_tool or list_tools reads it.
Kinds == {"result", "error"}
\* what the response to tools/call holds: a result, an error, neither member, or
\* a result member whose value is null
Payloads == Kinds \cup {"neither", "null"}

VARIABLES
    mode,            \* which object the application drives: "direct" | "tcg" | "poke"
    client,          \* wrapper's self.client is not None
    process,         \* MCPClient.process: 0 = None, else the child process
    request_id,      \* MCPClient.request_id
    response_queue,  \* MCPClient.response_queue
    running,         \* MCPClient.running
    initialized,     \* MCPClient._initialized
    alive,           \* alive[g]: child g has not exited
    stdout,          \* stdout[g]: lines child g wrote that no reader has read yet
    stdin,           \* the messages written to the stdin of self.process, in order
    nlines,          \* lines written by all children
    rd,              \* rd[g]: the reader thread started with child g
    th               \* th[t]: caller thread t

clientVars == <<client, process, request_id, response_queue, running, initialized>>
osVars == <<alive, stdout, stdin, nlines>>
vars == <<mode, clientVars, osVars, rd, th>>

\* ------------------------------------------------------------------ values
\* A line on a child's stdout: kind "object" is a JSON object with the id i, written
\* by child g; the other kinds are lines that are not responses.
NoMsg == [id |-> 0, proc |-> 0, kind |-> "none"]
Msg(i, g) == [id |-> i, proc |-> g, kind |-> "object"]
\* blank: only white space; text: not JSON; scalar: JSON that is not an object
\* (a number, a string, an array, null)
Line(k, g) == [id |-> 0, proc |-> g, kind |-> k]
\* Python values a method returns: tag names the value, msg the response it came from.
Val(tag, m) == [tag |-> tag, msg |-> m]
None == Val("None", NoMsg)
True == Val("True", NoMsg)
False == Val("False", NoMsg)
Resp(m) == Val("response", m)

\* A request or notification line on a child's stdin.
Req(i, meth) == [id |-> i, method |-> meth]

\* ------------------------------------------------------------------ threads
ThreadInit ==
    [pc |-> "idle", stack |-> <<>>, ret |-> None, op |-> "none", method |-> "none",
     reqid |-> 0, expected |-> 0, elapsed |-> 0, slice |-> 0, stale |-> 0, tmp |-> 0,
     why |-> "none", first |-> None, calls |-> 0, stops |-> 0, starts |-> 0,
     gone |-> FALSE]

\* call f: block or continue inside it at pc, come back at label back
Call(r, pc, back) == [r EXCEPT !.pc = pc, !.stack = <<back>> \o r.stack]
\* return v to the caller; when the top-level operation returns, only its name,
\* its value, the last log line and the per-invocation counters stay observable
Ret(r, v) ==
    IF Head(r.stack) = "idle"
    THEN [ThreadInit EXCEPT !.op = r.op, !.ret = v, !.why = r.why, !.first = r.first,
                            !.calls = r.calls, !.stops = r.stops, !.starts = r.starts]
    ELSE [r EXCEPT !.pc = Head(r.stack), !.stack = Tail(r.stack), !.ret = v]
\* a top-level operation begins: per-invocation counters restart
Begin(name) == [ThreadInit EXCEPT !.stack = <<"idle">>, !.op = name]

ReaderInit == [pc |-> "off", src |-> 0]

Init ==
    /\ mode \in {"direct", "tcg", "poke"}
    /\ client = (mode = "direct")
    /\ process = 0
    /\ request_id = 0
    /\ response_queue = <<>>
    /\ running = FALSE
    /\ initialized = FALSE
    /\ alive = [g \in Procs |-> FALSE]
    /\ stdout = [g \in Procs |-> <<>>]
    /\ stdin = <<>>
    /\ nlines = 0
    /\ rd = [g \in Procs |-> ReaderInit]
    /\ th = [t \in Threads |-> ThreadInit]

\* ------------------------------------------------------------------ child process
\* The child writes one response line, with any id.
ChildWrite(g) ==
    /\ alive[g]
    /\ nlines < MaxLines
    /\ \E i \in Ids :
         stdout' = [stdout EXCEPT ![g] = Append(@, Msg(i, g))]
    /\ nlines' = nlines + 1
    /\ UNCHANGED <<mode, clientVars, alive, stdin, rd, th>>

\* The child writes a blank line or a line of text that is not JSON.
ChildWriteNoise(g) ==
    /\ alive[g]
    /\ nlines < MaxLines
    /\ \E k \in {"blank", "text"} :
         stdout' = [stdout EXCEPT ![g] = Append(@, Line(k, g))]
    /\ nlines' = nlines + 1
    /\ UNCHANGED <<mode, clientVars, alive, stdin, rd, th>>

\* The child writes a line of JSON that is not an object.
ChildWriteScalar(g) ==
    /\ alive[g]
    /\ nlines < MaxLines
    /\ stdout' = [stdout EXCEPT ![g] = Append(@, Line("scalar", g))]
    /\ nlines' = nlines + 1
    /\ UNCHANGED <<mode, clientVars, alive, stdin, rd, th>>

\* readline() returns '' once the child is gone and its pipe is empty, and the
\* loop breaks: a reader thread blocked on such a pipe has ended.
AtEOF(rdf, al, so) ==
    [g \in Procs |->
       IF rdf[g].pc = "blocked" /\ so[rdf[g].src] = <<>> /\ ~al[rdf[g].src]
       THEN [rdf[g] EXCEPT !.pc = "off", !.src = 0]
       ELSE rdf[g]]

\* The child exits (crash or normal exit); what it wrote stays in the pipe.
ChildExit(g) ==
    /\ alive[g]
    /\ alive' = [alive EXCEPT ![g] = FALSE]
    /\ rd' = AtEOF(rd, alive', stdout)
    /\ UNCHANGED <<mode, clientVars, stdout, stdin, nlines, th>>

\* ------------------------------------------------------------------ reader thread
\* _read_responses, loop condition: self.running and self.process and
\* self.process.stdout; the thread then blocks in readline() of that stdout.
ReaderBind(r) ==
    IF running /\ process # 0
    THEN [r EXCEPT !.pc = "blocked", !.src = process]
    ELSE [r EXCEPT !.pc = "off", !.src = 0]

\* the queue after the reader handled line l: a blank line is skipped before
\* json.loads, text raises JSONDecodeError, which is logged; put() comes after the
\* log line that evaluates response.get('id'), which raises on a value that is
\* not a dict
Enqueued(q, l) == IF l.kind = "object" THEN Append(q, l) ELSE q

AfterLineStrict(r, l) ==
    IF l.kind = "object" THEN ReaderBind(r) ELSE [r EXCEPT !.pc = "off", !.src = 0]

\* the reader after line l: the AttributeError of response.get on a value that is
\* not a dict reaches the outer except clause, which breaks the loop; after any
\* other line the loop condition is evaluated again
AfterLine(r, l) ==
    IF l.kind = "scalar" THEN [r EXCEPT !.pc = "off", !.src = 0] ELSE ReaderBind(r)

\* One iteration of _read_responses: readline() returns the next line of the pipe,
\* json.loads, response_queue.put (the queue of the object the thread was started
\* on), and the loop condition is evaluated again.
ReaderLine(g) ==
    /\ rd[g].pc = "blocked"
    /\ stdout[rd[g].src] # <<>>
    /\ stdout' = [stdout EXCEPT ![rd[g].src] = Tail(@)]
    /\ response_queue' = Enqueued(response_queue, Head(stdout[rd[g].src]))
    /\ rd' = AtEOF([rd EXCEPT ![g] = AfterLine(@, Head(stdout[rd[g].src]))], alive, stdout')
    /\ UNCHANGED <<mode, client, process, request_id, running, initialized,
                   alive, stdin, nlines, th>>

\* ------------------------------------------------------------------ _send_request
\* while time.time() - start_time < timeout
Expired(e) == e >= TimeoutTicks

Min(a, b) == IF a < b THEN a ELSE b

WaitSliceNone(e) == 0

\* the timeout of one queue.get: min(remaining_timeout, 5.0)
WaitSlice(e) == Min(TimeoutTicks - e, SliceTicks)

\* _send_request returns v; why is the line it logs
SRRet(r, why, v) == Ret([r EXCEPT !.why = why, !.slice = 0], v)

\* the head of the wait loop: leave it on timeout, else block in get() for a slice
LoopHead(r) ==
    IF Expired(r.elapsed) \/ TimeoutTicks - r.elapsed <= 0
    THEN SRRet(r, "timeout", None)
    ELSE [r EXCEPT !.pc = "sr_get", !.slice = WaitSlice(r.elapsed)]

\* self.request_id += 1
NextId(n) == n + 1

\* expected_id = self.request_id, read after the write
ExpectedId(n) == n

SendRequestWriteIgnored(t, r, p, isAlive, sin, meth, back) ==
    IF p = 0
    THEN /\ th' = [th EXCEPT ![t] = SRRet(Call(r, "sr_get", back), "noproc", None)]
         /\ request_id' = request_id
         /\ stdin' = sin
    ELSE /\ request_id' = NextId(request_id)
         /\ stdin' = IF isAlive THEN Append(sin, Req(request_id', meth)) ELSE sin
         /\ th' = [th EXCEPT ![t] =
                     LoopHead([Call(r, "sr_get", back) EXCEPT
                                 !.method = meth, !.reqid = request_id',
                                 !.expected = ExpectedId(request_id'),
                                 !.elapsed = 0, !.stale = 0, !.why = "sent"])]

\* _send_request up to its first get(): thread record r (the caller's frame) sends
\* method meth to process p, whose stdin holds sin; back is where the caller resumes.
\* No process: return None.  A write to a child that has exited raises (broken
\* pipe) and the except clause returns None; the id counter is already incremented.
SendRequest(t, r, p, isAlive, sin, meth, back) ==
    IF p = 0
    THEN /\ th' = [th EXCEPT ![t] = SRRet(Call(r, "sr_get", back), "noproc", None)]
         /\ request_id' = request_id
         /\ stdin' = sin
    ELSE /\ request_id' = NextId(request_id)
         /\ IF isAlive
            THEN /\ stdin' = Append(sin, Req(request_id', meth))
                 /\ th' = [th EXCEPT ![t] =
                             LoopHead([Call(r, "sr_get", back) EXCEPT
                                         !.method = meth, !.reqid = request_id',
                                         !.expected = ExpectedId(request_id'),
                                         !.elapsed = 0, !.stale = 0, !.why = "sent"])]
            ELSE /\ stdin' = sin
                 /\ th' = [th EXCEPT ![t] =
                             SRRet([Call(r, "sr_get", back) EXCEPT !.method = meth,
                                                                    !.reqid = request_id'],
                                   "writefail", None)]

\* one tick passes while the thread is blocked in get() on an empty queue
Tick(t) ==
    /\ th[t].pc = "sr_get"
    /\ response_queue = <<>>
    /\ th[t].slice > 0
    /\ th' = [th EXCEPT ![t] = [@ EXCEPT !.elapsed = @ + 1, !.slice = @ - 1]]
    /\ UNCHANGED <<mode, clientVars, osVars, rd>>

MatchesUpTo(m, e) == m.id <= e

\* response_id == expected_id
Matches(m, e) == m.id = e

OnMessageAny(r, m) == SRRet(r, "matched", Resp(m))

OnMessageFirstOnly(r, m) ==
    IF Matches(m, r.expected) THEN SRRet(r, "matched", Resp(m))
                              ELSE SRRet(r, "discarded", None)

\* what the loop does with a dequeued message: return it when the id matches,
\* else log, discard (stale: the id of the message dropped) and go round the loop
OnMessage(r, m) ==
    IF Matches(m, r.expected) THEN SRRet(r, "matched", Resp(m))
                              ELSE LoopHead([r EXCEPT !.why = "discarded", !.stale = m.id])

\* self.process.poll() is not None (a process of None raises: return None)
Died == process = 0 \/ ~alive[process]

SRGetCheckAlive(t) ==
    /\ th[t].pc = "sr_get"
    /\ response_queue # <<>>
    /\ IF Died
       THEN /\ response_queue' = response_queue
            /\ th' = [th EXCEPT ![t] = SRRet([@ EXCEPT !.gone = TRUE], "died", None)]
       ELSE /\ response_queue' = Tail(response_queue)
            /\ th' = [th EXCEPT ![t] = OnMessage([@ EXCEPT !.gone = FALSE],
                                                 Head(response_queue))]
    /\ UNCHANGED <<mode, client, process, request_id, running, initialized, osVars, rd>>

\* get() returns the head of the queue, whether the child still runs or not (gone
\* records that it had exited when the message was taken)
SRGet(t) ==
    /\ th[t].pc = "sr_get"
    /\ response_queue # <<>>
    /\ response_queue' = Tail(response_queue)
    /\ th' = [th EXCEPT ![t] = OnMessage([@ EXCEPT !.gone = Died], Head(response_queue))]
    /\ UNCHANGED <<mode, client, process, request_id, running, initialized, osVars, rd>>

OnEmptyContinue(r, died) == LoopHead(r)

\* what the loop does on queue.Empty: return None when the process died, else continue
OnEmpty(r, died) == IF died THEN SRRet(r, "died", None) ELSE LoopHead(r)

\* get() raises queue.Empty at the end of the slice
SREmpty(t) ==
    /\ th[t].pc = "sr_get"
    /\ response_queue = <<>>
    /\ th[t].slice = 0
    /\ th' = [th EXCEPT ![t] = OnEmpty(@, Died)]
    /\ UNCHANGED <<mode, clientVars, osVars, rd>>

\* ------------------------------------------------------------------ start, _initialize
\* The slots Popen can take: nothing of the last process in it is left (it has
\* exited, its pipe is empty, its reader thread has ended, no line of it is queued).
FreeProcs ==
    {g \in Procs : /\ ~alive[g] /\ stdout[g] = <<>> /\ process # g
                   /\ rd[g].pc = "off"
                   /\ \A i \in 1..Len(response_queue) : response_queue[i].proc # g}
NewProc == CHOOSE g \in FreeProcs : \A h \in FreeProcs : g <= h

\* start() run by the frame r: Popen, running = True, the reader thread, then
\* _initialize() sends the initialize request and waits.  Popen may raise: start()
\* returns False and nothing is assigned.
StartBody(t, r) ==
    \/ /\ th' = [th EXCEPT ![t] = Ret(r, False)]
       /\ UNCHANGED <<process, request_id, running, alive, stdin, rd>>
    \/ /\ FreeProcs # {}
       /\ process' = NewProc
       /\ alive' = [alive EXCEPT ![NewProc] = TRUE]
       /\ running' = TRUE
       /\ rd' = [rd EXCEPT ![NewProc] = [ReaderInit EXCEPT !.pc = "blocked", !.src = NewProc]]
       /\ SendRequest(t, [r EXCEPT !.starts = @ + 1], NewProc, TRUE, <<>>,
                      "initialize", "init_ret")

StartMarksReady(t, r) ==
    /\ StartBody(t, r)
    /\ initialized' = TRUE
    /\ UNCHANGED <<mode, client, response_queue, stdout, nlines>>

Start(t, r) ==
    /\ StartBody(t, r)
    /\ UNCHANGED <<mode, client, response_queue, initialized, stdout, nlines>>

\* client.start() on the MCPClient a wrapper has just constructed
StartPopen(t) ==
    /\ th[t].pc = "st_popen"
    /\ Start(t, th[t])

TruthyAlways(v) == TRUE

\* if response: (a dict with an id is truthy)
Truthy(v) == v # None

InitRetStrict(t) ==
    /\ th[t].pc = "init_ret"
    /\ IF th[t].ret # None
       THEN /\ stdin' = IF process # 0 /\ alive[process]
                        THEN Append(stdin, Req(0, "notifications/initialized"))
                        ELSE stdin
            /\ initialized' = TRUE
       ELSE UNCHANGED <<stdin, initialized>>
    /\ \E k \in Kinds :
         th' = [th EXCEPT ![t] =
                  Ret([@ EXCEPT !.reqid = 0, !.expected = 0, !.elapsed = 0, !.stale = 0,
                                !.why = IF th[t].ret = None THEN @ ELSE k],
                      IF th[t].ret = None THEN False ELSE True)]
    /\ UNCHANGED <<mode, client, process, request_id, response_queue, running,
                   alive, stdout, nlines, rd>>

\* _initialize() after _send_request returned: on a response, _send_notification
\* (no process: return; a failing write is logged and swallowed), then
\* _initialized = True; start() returns True either way.  The response holds k, a
\* result or an error, which _initialize does not look at (why keeps it).
InitRet(t) ==
    /\ th[t].pc = "init_ret"
    /\ IF Truthy(th[t].ret)
       THEN /\ stdin' = IF process # 0 /\ alive[process]
                        THEN Append(stdin, Req(0, "notifications/initialized"))
                        ELSE stdin
            /\ initialized' = TRUE
       ELSE UNCHANGED <<stdin, initialized>>
    /\ \E k \in Kinds :
         th' = [th EXCEPT ![t] =
                  Ret([@ EXCEPT !.reqid = 0, !.expected = 0, !.elapsed = 0, !.stale = 0,
                                !.why = IF th[t].ret = None THEN @ ELSE k],
                      True)]
    /\ UNCHANGED <<mode, client, process, request_id, response_queue, running,
                   alive, stdout, nlines, rd>>

\* ------------------------------------------------------------------ call_tool, list_tools
CallToolBodyUnchecked(t, r) ==
    SendRequest(t, [r EXCEPT !.calls = @ + 1], process, process # 0 /\ alive[process],
                stdin, "tools/call", "ct_ret")

\* call_tool run by the frame r: not initialized -> None, else _send_request
CallToolBody(t, r) ==
    IF ~initialized
    THEN /\ th' = [th EXCEPT ![t] = Ret([r EXCEPT !.why = "notinit", !.calls = @ + 1], None)]
         /\ UNCHANGED <<request_id, stdin>>
    ELSE SendRequest(t, [r EXCEPT !.calls = @ + 1], process, process # 0 /\ alive[process],
                     stdin, "tools/call", "ct_ret")

CallTool(t, r) ==
    /\ CallToolBody(t, r)
    /\ UNCHANGED <<mode, client, process, response_queue, running, initialized,
                   alive, stdout, nlines, rd>>

ToolValueErrorNone(v, k) ==
    IF v = None THEN None
    ELSE IF k = "result" THEN Val("result", v.msg)
    ELSE None

\* the value call_tool makes of the response, which holds k: response["result"]
\* when "result" is a member (None when its value is null), else
\* {"error": response["error"]} when "error" is a member, else None
ToolValue(v, k) ==
    IF v = None THEN None
    ELSE IF k = "result" THEN Val("result", v.msg)
    ELSE IF k = "null" THEN None
    ELSE IF k = "error" THEN Val("errordict", v.msg)
    ELSE None

\* call_tool after _send_request returned (why keeps what the response held)
CallToolRet(t) ==
    /\ th[t].pc = "ct_ret"
    /\ \E k \in Payloads :
         th' = [th EXCEPT ![t] =
                  Ret([@ EXCEPT !.reqid = 0, !.expected = 0, !.elapsed = 0, !.stale = 0,
                                !.why = IF th[t].ret = None THEN @ ELSE k],
                      ToolValue(th[t].ret, k))]
    /\ UNCHANGED <<mode, clientVars, osVars, rd>>

ListToolsBodyUnchecked(t, r) ==
    SendRequest(t, r, process, process # 0 /\ alive[process],
                stdin, "tools/list", "lt_ret")

\* list_tools run by the frame r: not initialized -> [], else _send_request
ListToolsBody(t, r) ==
    IF ~initialized
    THEN /\ th' = [th EXCEPT ![t] = Ret([r EXCEPT !.why = "notinit"], Val("list", NoMsg))]
         /\ UNCHANGED <<request_id, stdin>>
    ELSE SendRequest(t, r, process, process # 0 /\ alive[process],
                     stdin, "tools/list", "lt_ret")

ListTools(t, r) ==
    /\ ListToolsBody(t, r)
    /\ UNCHANGED <<mode, client, process, response_queue, running, initialized,
                   alive, stdout, nlines, rd>>

\* response["result"].get("tools", []) of a response that holds k, or [] without a result
ToolList(v, k) ==
    IF v # None /\ k = "result" THEN Val("list", v.msg) ELSE Val("list", NoMsg)

ListToolsRet(t) ==
    /\ th[t].pc = "lt_ret"
    /\ \E k \in Kinds :
         th' = [th EXCEPT ![t] =
                  Ret([@ EXCEPT !.reqid = 0, !.expected = 0, !.elapsed = 0, !.stale = 0],
                      ToolList(th[t].ret, k))]
    /\ UNCHANGED <<mode, clientVars, osVars, rd>>

\* ------------------------------------------------------------------ stop
KeepId(n) == n

\* self.request_id = 0
ResetId(n) == 0

\* the loop of get_nowait() until queue.Empty
DrainedQueue(q) == <<>>

StopBodyResetInside(t, r) ==
    /\ running' = FALSE
    /\ th' = [th EXCEPT ![t] = IF process = 0
                               THEN Ret([r EXCEPT !.stops = @ + 1, !.why = "noprocess"], None)
                               ELSE [r EXCEPT !.pc = "stop_wait", !.stops = @ + 1]]
    /\ UNCHANGED <<initialized, request_id, response_queue>>

\* stop() run by the frame r: running = False; without a process the reset follows
\* at once, else terminate() and the thread blocks in process.wait(timeout=5)
StopBody(t, r) ==
    /\ running' = FALSE
    /\ IF process = 0
       THEN /\ initialized' = FALSE
            /\ request_id' = ResetId(request_id)
            /\ response_queue' = DrainedQueue(response_queue)
            /\ th' = [th EXCEPT ![t] = Ret([r EXCEPT !.stops = @ + 1, !.why = "noprocess"], None)]
       ELSE /\ th' = [th EXCEPT ![t] = [r EXCEPT !.pc = "stop_wait", !.stops = @ + 1]]
            /\ UNCHANGED <<initialized, request_id, response_queue>>

Stop(t, r) ==
    /\ StopBody(t, r)
    /\ UNCHANGED <<mode, client, process, osVars, rd>>

\* wait() returns or expires and kill() follows: the child is gone;
\* self.process = None, then the reset for a clean restart
StopWait(t) ==
    /\ th[t].pc = "stop_wait"
    /\ alive' = IF process # 0 THEN [alive EXCEPT ![process] = FALSE] ELSE alive
    /\ process' = 0
    /\ stdin' = <<>>
    /\ initialized' = FALSE
    /\ request_id' = ResetId(request_id)
    /\ response_queue' = DrainedQueue(response_queue)
    /\ rd' = AtEOF(rd, alive', stdout)
    /\ th' = [th EXCEPT ![t] = Ret(@, None)]
    /\ UNCHANGED <<mode, client, running, stdout, nlines>>

\* ------------------------------------------------------------------ direct use of MCPClient
\* start() on an object that holds no process: a new one, one stopped, or one
\* whose Popen failed
UserStart(t) ==
    /\ mode = "direct" /\ th[t].pc = "idle"
    /\ process = 0
    /\ Start(t, Begin("start"))

\* start() on an object in any state: start() itself tests nothing before Popen
AnyStart(t) ==
    /\ mode = "direct" /\ th[t].pc = "idle"
    /\ request_id < MaxId
    /\ Start(t, Begin("start"))

UserStop(t) ==
    /\ mode = "direct" /\ th[t].pc = "idle"
    /\ Stop(t, Begin("stop"))

UserCallTool(t) ==
    /\ mode = "direct" /\ th[t].pc = "idle"
    /\ request_id < MaxId
    /\ CallTool(t, Begin("call_tool"))

UserListTools(t) ==
    /\ mode = "direct" /\ th[t].pc = "idle"
    /\ request_id < MaxId
    /\ ListTools(t, Begin("list_tools"))

\* ------------------------------------------------------------------ _send_request, thread by thread
\* Several threads share one MCPClient, and a thread may be switched out between
\* any two statements of _send_request.  The steps are the reads and writes of the
\* shared fields: self.request_id += 1 is a read (tmp) and a write, the request
\* dict reads the field again, stdin.write and flush release the interpreter lock,
\* and expected_id reads the field once more.
SendSteps == {"sr_load", "sr_store", "sr_write", "sr_expect"}

\* call_tool by one of several threads: not initialized -> None; no process ->
\* None; else the thread is about to read request_id
SharedCallTool(t) ==
    /\ mode = "direct" /\ th[t].pc = "idle"
    /\ request_id < MaxId
    /\ th' = [th EXCEPT ![t] =
                IF ~initialized
                THEN Ret([Begin("call_tool") EXCEPT !.why = "notinit", !.calls = 1], None)
                ELSE IF process = 0
                THEN SRRet(Call([Begin("call_tool") EXCEPT !.calls = 1], "sr_get", "ct_ret"),
                           "noproc", None)
                ELSE [Call([Begin("call_tool") EXCEPT !.calls = 1], "sr_load", "ct_ret")
                        EXCEPT !.method = "tools/call"]]
    /\ UNCHANGED <<mode, clientVars, osVars, rd>>

\* the read of self.request_id += 1
SendLoad(t) ==
    /\ th[t].pc = "sr_load"
    /\ th' = [th EXCEPT ![t] = [@ EXCEPT !.pc = "sr_store", !.tmp = request_id]]
    /\ UNCHANGED <<mode, clientVars, osVars, rd>>

\* the write of self.request_id += 1
SendStore(t) ==
    /\ th[t].pc = "sr_store"
    /\ request_id' = NextId(th[t].tmp)
    /\ th' = [th EXCEPT ![t] = [@ EXCEPT !.pc = "sr_write", !.tmp = 0]]
    /\ UNCHANGED <<mode, client, process, response_queue, running, initialized, osVars, rd>>

\* "id": self.request_id, json.dumps, stdin.write, flush; a write to a child that
\* has exited raises and the except clause returns None
SendWrite(t) ==
    /\ th[t].pc = "sr_write"
    /\ IF process # 0 /\ alive[process]
       THEN /\ stdin' = Append(stdin, Req(request_id, th[t].method))
            /\ th' = [th EXCEPT ![t] = [@ EXCEPT !.pc = "sr_expect", !.reqid = request_id,
                                                  !.why = "sent"]]
       ELSE /\ stdin' = stdin
            /\ th' = [th EXCEPT ![t] = SRRet([@ EXCEPT !.reqid = request_id], "writefail", None)]
    /\ UNCHANGED <<mode, clientVars, alive, stdout, nlines, rd>>

\* expected_id = self.request_id; start_time = time.time(); the head of the loop
SendExpect(t) ==
    /\ th[t].pc = "sr_expect"
    /\ th' = [th EXCEPT ![t] = LoopHead([@ EXCEPT !.expected = ExpectedId(request_id),
                                                  !.elapsed = 0, !.stale = 0])]
    /\ UNCHANGED <<mode, clientVars, osVars, rd>>

SendStep(t) == SendLoad(t) \/ SendStore(t) \/ SendWrite(t) \/ SendExpect(t)

\* ------------------------------------------------------------------ wrapper clients
\* MCPClient(...): a new object with the fields of __init__.  The object it
\* replaces is unreachable: its child is dead (the wrappers replace a client only
\* when there is none, or its child is gone or it was stopped), and its reader
\* threads and the lines left in its pipes touch only the old object, so they
\* leave the state.
NewClientReuse ==
    /\ client' = TRUE
    /\ process' = 0
    /\ running' = FALSE
    /\ initialized' = FALSE
    /\ stdin' = <<>>
    /\ UNCHANGED <<request_id, response_queue, rd, stdout>>

NewClient ==
    /\ client' = TRUE
    /\ process' = 0
    /\ request_id' = 0
    /\ response_queue' = <<>>
    /\ running' = FALSE
    /\ initialized' = FALSE
    /\ stdin' = <<>>
    /\ rd' = [g \in Procs |-> ReaderInit]
    /\ stdout' = [g \in Procs |-> <<>>]

\* MCPClient.is_running(): a process whose poll() is None
IsRunning == process # 0 /\ alive[process]

\* PokemonTCGMCPClient.start() run by the frame r: True when the client runs;
\* False when dist/index.js is missing; else a new MCPClient and its start()
TcgStart(t, r) ==
    /\ IF client /\ IsRunning
       THEN /\ th' = [th EXCEPT ![t] = Ret(r, True)]
            /\ UNCHANGED <<clientVars, stdin, stdout, rd>>
       ELSE \/ /\ th' = [th EXCEPT ![t] = Ret(r, False)]
               /\ UNCHANGED <<clientVars, stdin, stdout, rd>>
            \/ /\ NewClient
               /\ th' = [th EXCEPT ![t] = [r EXCEPT !.pc = "st_popen"]]
    /\ UNCHANGED <<mode, alive, nlines>>

\* PokemonTCGMCPClient.stop() run by the frame r: client.stop(), then client = None
TcgStop(t, r) ==
    IF client
    THEN Stop(t, Call(r, "stop", "tstop_ret"))
    ELSE /\ th' = [th EXCEPT ![t] = Ret(r, None)]
         /\ UNCHANGED <<mode, clientVars, osVars, rd>>

TcgStopRet(t) ==
    /\ th[t].pc = "tstop_ret"
    /\ client' = FALSE
    /\ th' = [th EXCEPT ![t] = Ret(@, None)]
    /\ UNCHANGED <<mode, process, request_id, response_queue, running, initialized, osVars, rd>>

\* what search_cards returns for the value of call_tool: the parsed text content
\* of a result, the error dict as it is, an error for None
FormatCards(v) ==
    IF v = None THEN Val("error_noresponse", NoMsg)
    ELSE IF v.tag = "result" THEN Val("cards", v.msg)
    ELSE v

\* search_cards: start when there is no running client, then call_tool
SearchCards(t) ==
    /\ mode = "tcg" /\ th[t].pc = "idle"
    /\ request_id < MaxId
    /\ IF ~client \/ ~IsRunning
       THEN TcgStart(t, Call(Begin("search_cards"), "start", "sc_started"))
       ELSE CallTool(t, Call(Begin("search_cards"), "call", "sc_ret1"))

SearchStarted(t) ==
    /\ th[t].pc = "sc_started"
    /\ IF th[t].ret = False
       THEN /\ th' = [th EXCEPT ![t] = Ret(@, Val("error_start", NoMsg))]
            /\ UNCHANGED <<mode, clientVars, osVars, rd>>
       ELSE CallTool(t, Call(th[t], "call", "sc_ret1"))

\* if result is None: self.stop(), sleep, self.start(), sleep, the call again
NeedsRestart(v) == v = None

SearchRet1(t) ==
    /\ th[t].pc = "sc_ret1"
    /\ IF NeedsRestart(th[t].ret)
       THEN TcgStop(t, Call([th[t] EXCEPT !.first = th[t].ret], "stop", "sc_stopped"))
       ELSE /\ th' = [th EXCEPT ![t] = Ret([@ EXCEPT !.first = th[t].ret], FormatCards(th[t].ret))]
            /\ UNCHANGED <<mode, clientVars, osVars, rd>>

SearchStopped(t) ==
    /\ th[t].pc = "sc_stopped"
    /\ TcgStart(t, Call(th[t], "start", "sc_restarted"))

SearchRestarted(t) ==
    /\ th[t].pc = "sc_restarted"
    /\ IF th[t].ret = True
       THEN CallTool(t, Call(th[t], "call", "sc_ret2"))
       ELSE /\ th' = [th EXCEPT ![t] = Ret(@, Val("error_restart", NoMsg))]
            /\ UNCHANGED <<mode, clientVars, osVars, rd>>

SearchRet2Again(t) ==
    /\ th[t].pc = "sc_ret2"
    /\ IF NeedsRestart(th[t].ret)
       THEN TcgStop(t, Call(th[t], "stop", "sc_stopped"))
       ELSE /\ th' = [th EXCEPT ![t] = Ret(@, FormatCards(th[t].ret))]
            /\ UNCHANGED <<mode, clientVars, osVars, rd>>

SearchRet2First(t) ==
    /\ th[t].pc = "sc_ret2"
    /\ th' = [th EXCEPT ![t] = Ret(@, FormatCards(th[t].first))]
    /\ UNCHANGED <<mode, clientVars, osVars, rd>>

\* the retry's value is formatted and returned, whatever it is
SearchRet2(t) ==
    /\ th[t].pc = "sc_ret2"
    /\ th' = [th EXCEPT ![t] = Ret(@, FormatCards(th[t].ret))]
    /\ UNCHANGED <<mode, clientVars, osVars, rd>>

\* what get_card_price returns for the value of call_tool
FormatPrice(v) ==
    IF v = None THEN Val("error_noresponse", NoMsg)
    ELSE IF v.tag = "result" THEN Val("price", v.msg)
    ELSE v

GetCardPrice(t) ==
    /\ mode = "tcg" /\ th[t].pc = "idle"
    /\ request_id < MaxId
    /\ IF ~client \/ ~IsRunning
       THEN TcgStart(t, Call(Begin("get_card_price"), "start", "gp_started"))
       ELSE CallTool(t, Call(Begin("get_card_price"), "call", "gp_ret"))

PriceStarted(t) ==
    /\ th[t].pc = "gp_started"
    /\ IF th[t].ret = False
       THEN /\ th' = [th EXCEPT ![t] = Ret(@, Val("error_start", NoMsg))]
            /\ UNCHANGED <<mode, clientVars, osVars, rd>>
       ELSE CallTool(t, Call(th[t], "call", "gp_ret"))

PriceRet(t) ==
    /\ th[t].pc = "gp_ret"
    /\ th' = [th EXCEPT ![t] = Ret(@, FormatPrice(th[t].ret))]
    /\ UNCHANGED <<mode, clientVars, osVars, rd>>

TcgStopOp(t) ==
    /\ mode = "tcg" /\ th[t].pc = "idle"
    /\ TcgStop(t, Begin("tcg_stop"))

\* PokeMCPClient.get_pokemon (and the other get_*): _ensure_client, call_tool, the
\* value as it is; an exception of _ensure_client becomes {"error": str(e)}
GetPokemon(t) ==
    /\ mode = "poke" /\ th[t].pc = "idle"
    /\ request_id < MaxId
    /\ IF ~client \/ ~running
       THEN /\ \/ /\ th' = [th EXCEPT ![t] = Ret(Begin("get_pokemon"), Val("error_exception", NoMsg))]
                  /\ UNCHANGED <<clientVars, stdin, stdout, rd>>
               \/ /\ NewClient
                  /\ th' = [th EXCEPT ![t] = Call(Begin("get_pokemon"), "st_popen", "ec_started")]
            /\ UNCHANGED <<mode, alive, nlines>>
       ELSE CallTool(t, Call(Begin("get_pokemon"), "call", "pk_ret"))

\* _ensure_client after client.start(): False raises RuntimeError
EnsureStarted(t) ==
    /\ th[t].pc = "ec_started"
    /\ IF th[t].ret = False
       THEN /\ th' = [th EXCEPT ![t] = Ret(@, Val("error_exception", NoMsg))]
            /\ UNCHANGED <<mode, clientVars, osVars, rd>>
       ELSE CallTool(t, Call(th[t], "call", "pk_ret"))

PokemonRet(t) ==
    /\ th[t].pc = "pk_ret"
    /\ th' = [th EXCEPT ![t] = Ret(@, th[t].ret)]
    /\ UNCHANGED <<mode, clientVars, osVars, rd>>

\* PokeMCPClient.close(): client.stop(), then client = None
PokeClose(t) ==
    /\ mode = "poke" /\ th[t].pc = "idle"
    /\ IF client
       THEN Stop(t, Call(Begin("close"), "stop", "close_ret"))
       ELSE /\ th' = [th EXCEPT ![t] = Ret(Begin("close"), None)]
            /\ UNCHANGED <<mode, clientVars, osVars, rd>>

PokeCloseRet(t) ==
    /\ th[t].pc = "close_ret"
    /\ client' = FALSE
    /\ th' = [th EXCEPT ![t] = Ret(@, None)]
    /\ UNCHANGED <<mode, process, request_id, response_queue, running, initialized, osVars, rd>>

\* ------------------------------------------------------------------ specifications
\* the steps of MCPClient's methods that follow a blocking point
ClientStep(t) ==
    \/ SRGet(t) \/ SREmpty(t)
    \/ InitRet(t) \/ CallToolRet(t)
    \/ StopWait(t)

UserStep(t) == UserStart(t) \/ UserStop(t) \/ UserCallTool(t) \/ UserListTools(t)

TcgStep(t) ==
    \/ SearchCards(t) \/ SearchStarted(t) \/ SearchRet1(t) \/ SearchStopped(t)
    \/ SearchRestarted(t) \/ SearchRet2(t)
    \/ GetCardPrice(t) \/ PriceStarted(t) \/ PriceRet(t)
    \/ TcgStopOp(t) \/ TcgStopRet(t)

PokeStep(t) ==
    \/ GetPokemon(t) \/ EnsureStarted(t) \/ PokemonRet(t)
    \/ PokeClose(t) \/ PokeCloseRet(t)

Environment ==
    \/ \E g \in Procs : ChildWrite(g) \/ ChildExit(g)
    \/ \E g \in Procs : ReaderLine(g)

\* one thread drives an MCPClient object directly
Next ==
    \/ UserStep(1)
    \/ ListToolsRet(1)
    \/ ClientStep(1)
    \/ Tick(1)
    \/ Environment

InitDirect == Init /\ mode = "direct"

Spec == InitDirect /\ [][Next]_vars

\* start() has just returned False on a new object, whose Popen raised
InitAfterSpawnFailure ==
    /\ mode = "direct" /\ client = TRUE
    /\ process = 0 /\ request_id = 0
    /\ response_queue = <<>>
    /\ running = FALSE /\ initialized = FALSE
    /\ alive = [g \in Procs |-> FALSE]
    /\ stdout = [g \in Procs |-> <<>>]
    /\ stdin = <<>>
    /\ nlines = 0
    /\ rd = [g \in Procs |-> ReaderInit]
    /\ th = [t \in Threads |->
               IF t = 1 THEN [ThreadInit EXCEPT !.op = "start", !.ret = False]
                        ELSE ThreadInit]

RetrySpec == InitAfterSpawnFailure /\ [][Next]_vars

\* one thread drives an MCPClient object directly and calls start() whenever it likes
NextAny ==
    \/ AnyStart(1) \/ UserStop(1) \/ UserCallTool(1) \/ UserListTools(1)
    \/ ListToolsRet(1)
    \/ ClientStep(1)
    \/ Tick(1)
    \/ Environment

AnySpec == InitDirect /\ [][NextAny]_vars

\* one thread starts an MCPClient and calls tools; the child also writes lines
\* that are not responses
NextLine ==
    \/ UserStart(1) \/ UserCallTool(1)
    \/ SRGet(1) \/ SREmpty(1) \/ Tick(1)
    \/ InitRet(1) \/ CallToolRet(1)
    \/ Environment
    \/ \E g \in Procs : ChildWriteNoise(g) \/ ChildWriteScalar(g)

LineSpec == InitDirect /\ [][NextLine]_vars

\* one thread drives the wrapper clients
NextWrap ==
    \/ TcgStep(1)
    \/ PokeStep(1)
    \/ StartPopen(1)
    \/ ClientStep(1)
    \/ Tick(1)
    \/ Environment

InitWrap == Init /\ mode \in {"tcg", "poke"}

WrapSpec == InitWrap /\ [][NextWrap]_vars

\* the child never writes: the object is new, or it has completed the handshake
\* with a child that is silent from then on
InitReady ==
    /\ mode = "direct" /\ client = TRUE
    /\ process = 1 /\ request_id = 1
    /\ response_queue = <<>>
    /\ running = TRUE /\ initialized = TRUE
    /\ alive = [g \in Procs |-> g = 1]
    /\ stdout = [g \in Procs |-> <<>>]
    /\ stdin = <<Req(1, "initialize"), Req(0, "notifications/initialized")>>
    /\ nlines = 1
    /\ rd = [g \in Procs |-> IF g = 1 THEN [ReaderInit EXCEPT !.pc = "blocked", !.src = 1]
                                      ELSE ReaderInit]
    /\ th = [t \in Threads |->
               IF t = 1 THEN [ThreadInit EXCEPT !.op = "start", !.ret = True,
                                                !.why = "result", !.starts = 1]
                        ELSE ThreadInit]

InitSilent == InitDirect \/ InitReady

NextSilent ==
    \/ UserStep(1)
    \/ ListToolsRet(1)
    \/ InitRet(1) \/ CallToolRet(1) \/ StopWait(1)
    \/ SREmpty(1)
    \/ Tick(1)
    \/ \E g \in Procs : ChildExit(g)

\* time passes, and a get() that blocks returns at the end of its slice
FairSpec ==
    /\ InitSilent /\ [][NextSilent]_vars
    /\ WF_vars(Tick(1)) /\ WF_vars(SREmpty(1))

\* two threads call tools on one initialized MCPClient
NextConc ==
    \/ \E t \in Threads :
          \/ SharedCallTool(t)
          \/ SendStep(t)
          \/ SRGet(t) \/ SREmpty(t) \/ Tick(t)
          \/ CallToolRet(t)
    \/ Environment

ConcSpec == InitReady /\ [][NextConc]_vars

\* thread 1 calls tools on an initialized MCPClient, thread 2 stops it
NextStop ==
    \/ UserCallTool(1)
    \/ SRGet(1) \/ SREmpty(1) \/ Tick(1)
    \/ CallToolRet(1)
    \/ UserStop(2) \/ StopWait(2)
    \/ Environment

StopSpec == InitReady /\ [][NextStop]_vars

\* ------------------------------------------------------------------ properties
\* where _send_request returns to
RetLabels == {"init_ret", "ct_ret", "lt_ret"}

\* C1: whenever _send_request returns a response, the id of the response is the
\* id of the request that call wrote to the child's stdin (the last request written)
IdCorrelation ==
    \A t \in Threads :
       (th[t].pc \in RetLabels /\ th[t].ret # None) =>
          /\ th[t].ret.tag = "response"
          /\ stdin # <<>>
          /\ stdin[Len(stdin)].id = th[t].ret.msg.id
          /\ th[t].ret.msg.id = request_id

\* a call returned the matching response after it had dropped another message
IdCorrelationWitness ==
    /\ th[1].pc \in RetLabels /\ th[1].ret # None
    /\ th[1].stale # 0
    /\ stdin[Len(stdin)].id = th[1].ret.msg.id

\* C2: a waiting call that dequeues a message with another id removes it from the
\* inbox, does not return it, and goes on waiting for its own id (or finds its
\* budget exhausted and returns None)
StaleDiscarded ==
    [][ ( /\ th[1].pc = "sr_get"
          /\ response_queue # <<>>
          /\ Head(response_queue).id # th[1].expected
          /\ UNCHANGED <<osVars, rd>> )
        => /\ response_queue' = Tail(response_queue)
           /\ th'[1].ret # Resp(Head(response_queue))
           /\ \/ /\ th'[1].pc = "sr_get"
                 /\ th'[1].expected = th[1].expected
                 /\ th'[1].stack = th[1].stack
              \/ /\ th'[1].pc \in RetLabels
                 /\ th'[1].ret = None
                 /\ th'[1].why = "timeout" ]_vars

\* the call with id 2 got no response, and the call with id 3 has dropped the
\* late response to id 2 and waits on
StaleDiscardedWitness ==
    /\ th[1].pc = "sr_get" /\ th[1].why = "discarded"
    /\ th[1].expected = 3 /\ th[1].stale = 2
    /\ \E i \in 1..Len(stdin) : stdin[i].id = 2
    /\ alive[process]

\* C3: against a child that writes nothing a _send_request call ends; it returns
\* None, at the exhaustion of the budget while the child lives; a wait is never longer
\* than min(remaining budget, slice)
SilentTermination ==
    /\ [](th[1].pc = "sr_get" =>
            /\ th[1].slice <= SliceTicks
            /\ th[1].elapsed + th[1].slice <= TimeoutTicks)
    /\ [](th[1].pc \in RetLabels /\ th[1].why = "timeout" =>
            /\ th[1].ret = None
            /\ th[1].elapsed = TimeoutTicks)
    /\ [](th[1].pc \in RetLabels /\ th[1].why = "died" => ~alive[process])
    /\ ((th[1].pc = "sr_get") ~>
          (th[1].pc \in RetLabels /\ th[1].ret = None /\ th[1].why \in {"timeout", "died"}))

\* a tools/call request to a live silent child has timed out
SilentTerminationWitness ==
    /\ th[1].pc = "ct_ret" /\ th[1].why = "timeout" /\ th[1].ret = None
    /\ alive[process]
    /\ th[1].elapsed = TimeoutTicks

\* C4: a wait slice that ends on an empty inbox with the child gone makes the call
\* return None at once
DeathDetected ==
    [][ ( /\ th[1].pc = "sr_get"
          /\ response_queue = <<>>
          /\ th[1].slice = 0
          /\ Died
          /\ UNCHANGED <<osVars, rd>> )
        => /\ th'[1].pc \in RetLabels
           /\ th'[1].ret = None
           /\ th'[1].why = "died"
           /\ th'[1].elapsed = th[1].elapsed ]_vars

\* the call returned on the death of the child before its budget was spent
DeathDetectedWitness ==
    /\ th[1].pc \in RetLabels /\ th[1].why = "died" /\ th[1].ret = None
    /\ th[1].elapsed > 0 /\ th[1].elapsed < TimeoutTicks

\* C5: one invocation of a wrapper operation calls call_tool at most twice and
\* stops the client at most once (search_cards only; the others call once and
\* never stop), so there is at most one restart
RetryBound ==
    \A t \in Threads :
       /\ th[t].calls <= 2 /\ th[t].stops <= 1 /\ th[t].starts <= 2
       /\ th[t].op \in {"get_card_price", "get_pokemon"} =>
             th[t].calls <= 1 /\ th[t].stops = 0 /\ th[t].starts <= 1

\* search_cards has stopped the client once and called call_tool twice
RetryBoundWitness ==
    /\ th[1].op = "search_cards"
    /\ th[1].calls = 2 /\ th[1].stops = 1 /\ th[1].starts = 2

\* C6: when the retried call_tool of search_cards has returned a result,
\* search_cards returns that result, formatted, after exactly one stop and a start
RetryResult ==
    [][ ( /\ th[1].pc = "sc_ret2"
          /\ th[1].ret # None /\ th[1].ret.tag = "result"
          /\ th'[1] # th[1] )
        => /\ th[1].first = None
           /\ th'[1].pc = "idle"
           /\ th'[1].ret = Val("cards", th[1].ret.msg)
           /\ th'[1].stops = 1
           /\ th'[1].starts \in {1, 2}
           /\ th'[1].calls = 2 ]_vars

\* search_cards returned the cards of the retry
RetryResultWitness ==
    /\ th[1].pc = "idle" /\ th[1].op = "search_cards"
    /\ th[1].first = None /\ th[1].stops = 1 /\ th[1].calls = 2
    /\ th[1].ret.tag = "cards"
    /\ th[1].ret.msg.id = 2

\* C7: when stop() returns, the id counter is 0, the session is not initialized
\* and the inbox is empty; the first request written to a new child has id 1
RestartClean ==
    [][ /\ ( /\ th'[1] # th[1]
             /\ th'[1].pc = "idle" /\ th'[1].op = "stop" )
           => /\ request_id' = 0
              /\ ~initialized'
              /\ response_queue' = <<>>
              /\ process' = 0
        /\ (stdin = <<>> /\ stdin' # <<>>)
           => stdin' = <<Req(1, "initialize")>> ]_vars

\* the handshake request of a child started while lines of the last child are
\* still around
RestartCleanWitness ==
    /\ th[1].op = "start" /\ th[1].pc = "sr_get"
    /\ process = 2
    /\ stdin = <<Req(1, "initialize")>>
    /\ request_id = 1

\* C8: stop() on an object without a process (never started, or stopped) returns
\* at once and leaves the fields as a stop leaves them
StopIdempotent ==
    [][ (UserStop(1) /\ process = 0)
        => /\ th'[1].pc = "idle" /\ th'[1].ret = None
           /\ process' = 0 /\ ~IsRunning'
           /\ ~running' /\ ~initialized'
           /\ request_id' = 0
           /\ response_queue' = <<>> ]_vars

\* a stop() that found no process has returned
StopIdempotentWitness ==
    /\ th[1].pc = "idle" /\ th[1].op = "stop" /\ th[1].why = "noprocess"
    /\ process = 0 /\ ~running /\ ~initialized /\ request_id = 0

\* C9: call_tool and list_tools on a session that is not initialized return None
\* and [] at once and leave stdin, the id counter and the inbox as they are
NotReadyRejected ==
    [][ /\ (UserCallTool(1) /\ ~initialized)
           => /\ th'[1].pc = "idle" /\ th'[1].ret = None
              /\ UNCHANGED <<stdin, request_id, response_queue>>
        /\ (UserListTools(1) /\ ~initialized)
           => /\ th'[1].pc = "idle" /\ th'[1].ret = Val("list", NoMsg)
              /\ UNCHANGED <<stdin, request_id, response_queue>> ]_vars

\* list_tools was rejected on an object without a process while a line was queued
NotReadyRejectedWitness ==
    /\ th[1].pc = "idle" /\ th[1].op \in {"call_tool", "list_tools"}
    /\ th[1].why = "notinit"
    /\ response_queue # <<>>

\* the handshake of the current process is over and has failed
HandshakeFailed ==
    /\ process # 0 /\ ~initialized
    /\ ~(th[1].op = "start" /\ th[1].pc \in {"sr_get", "init_ret"})

StartErrors == {Val("error_start", NoMsg), Val("error_exception", NoMsg)}

\* C12: a wrapper operation invoked while the child of its client has exited
\* starts a new child before it issues the call, and when that start fails it
\* returns an error and has issued no call
FreshChildBeforeCall ==
    [][ /\ ( /\ GetPokemon(1) \/ SearchCards(1) \/ GetCardPrice(1)
             /\ client /\ process # 0 /\ ~alive[process] )
           => /\ th'[1].calls = 0
              /\ \/ th'[1].pc = "st_popen"
                 \/ th'[1].pc \in {"sc_started", "gp_started"} /\ th'[1].ret = False
                 \/ th'[1].pc = "idle" /\ th'[1].ret \in StartErrors
        /\ ( /\ th[1].pc \in {"sc_started", "gp_started", "ec_started"}
             /\ th[1].ret = False
             /\ th'[1] # th[1] )
           => /\ th'[1].pc = "idle" /\ th'[1].ret \in StartErrors
              /\ th'[1].calls = 0 ]_vars

\* the {"error": ...} values the wrappers make themselves
ErrorValues ==
    {Val(e, NoMsg) : e \in {"error_start", "error_restart", "error_noresponse", "error_exception"}}

\* C13: when the first call of search_cards ended by the timeout of
\* _send_request while the child is alive, search_cards returns an error and
\* neither stops or starts the server nor calls again
NoRestartOnTimeout ==
    [][ ( /\ th[1].pc = "sc_ret1"
          /\ th[1].ret = None /\ th[1].why = "timeout"
          /\ IsRunning
          /\ th'[1] # th[1] )
        => /\ th'[1].pc = "idle"
           /\ th'[1].ret \in ErrorValues
           /\ th'[1].stops = 0 /\ th'[1].calls = 1
           /\ process' = process /\ alive' = alive ]_vars

\* the tags of the dict values a wrapper operation returns: a result, the error
\* of an error response, an error the wrapper made
DictTags ==
    {"cards", "price", "result", "errordict",
     "error_start", "error_restart", "error_noresponse", "error_exception"}

\* C14: whatever failed, a wrapper operation that has returned has returned a
\* dict, a result or an error value, and never None
WrapperReturnsDict ==
    ( /\ th[1].pc = "idle"
      /\ th[1].op \in {"search_cards", "get_card_price", "get_pokemon"} )
    => /\ th[1].ret # None
       /\ th[1].ret.tag \in DictTags

\* the children that have not exited
LiveChildren == {g \in Procs : alive[g]}

\* C15: at most one child of the object is alive at any time, whatever the
\* sequence of start(), stop() and calls: start() spawns a child only when the
\* child spawned before has exited or was terminated
OneLiveChild == Cardinality(LiveChildren) <= 1

\* C16: a response that _send_request returns was written by the child the
\* request was written to, never by a child the object held before the last
\* stop() and start()
NoStaleAnswer ==
    \A t \in Threads :
       (th[t].pc \in RetLabels /\ th[t].ret # None)
          => th[t].ret.msg.proc = process

\* the thread is inside _send_request
InFlight(t) == th[t].pc \in SendSteps \cup {"sr_get"}

\* C17: at most one thread is inside _send_request of the object at any time,
\* and no wait loop drops the response another thread is waiting for
SingleInFlight ==
    \A t, u \in Threads :
       t # u =>
          /\ ~(InFlight(t) /\ InFlight(u))
          /\ ~( /\ th[t].why = "discarded" /\ th[u].pc = "sr_get"
                /\ th[t].stale = th[u].expected )

\* C18: two threads inside _send_request have written requests with different
\* ids, and each waits for the id of the request it wrote
DistinctIds ==
    \A t, u \in Threads :
       /\ (t # u /\ th[t].reqid # 0 /\ th[u].reqid # 0) => th[t].reqid # th[u].reqid
       /\ th[t].pc = "sr_get" => th[t].expected = th[t].reqid

\* the notification that follows the handshake is on the child's stdin
NotificationSent ==
    \E i \in 1..Len(stdin) : stdin[i] = Req(0, "notifications/initialized")

\* C19: when start() has returned after an error response to the initialize
\* request, the session is not initialized and no notification was written
ReadyOnlyOnResult ==
    ( /\ th[1].pc = "idle" /\ th[1].op = "start"
      /\ th[1].why = "error"
      /\ process # 0 )
    => /\ ~initialized
       /\ ~NotificationSent

ReaderOnProcess == \E g \in Procs : rd[g].pc = "blocked" /\ rd[g].src = process

\* C21: a line of JSON that is not an object is dropped and the reader thread
\* goes on: while the object is running and the stdout of its child is not at
\* EOF, a reader thread is reading it, so that a response written after the line
\* is enqueued
ScalarLineDropped ==
    /\ \A i \in 1..Len(response_queue) : response_queue[i].kind = "object"
    /\ (running /\ process # 0 /\ (alive[process] \/ stdout[process] # <<>>))
          => ReaderOnProcess

\* the line the reader thread g is about to read
NextLineOf(g) == Head(stdout[rd[g].src])

\* C22: a blank line and a line that is not JSON are never put into the queue
\* and never returned, and the reader thread that read one goes on reading;
\* the responses it reads are appended to the queue in the order of the pipe
NoiseDropped ==
    [][ /\ \A i \in 1..Len(response_queue') : response_queue'[i].kind = "object"
        /\ \A t \in Threads : th'[t].ret.msg.kind \in {"object", "none"}
        /\ \A g \in Procs :
             (rd[g].pc = "blocked" /\ stdout[rd[g].src] # <<>> /\ ReaderLine(g))
             => /\ stdout' = [stdout EXCEPT ![rd[g].src] = Tail(@)]
                /\ NextLineOf(g).kind \in {"blank", "text"}
                   => /\ response_queue' = response_queue
                      /\ (running /\ process # 0
                            /\ (alive[process] \/ stdout'[process] # <<>>))
                         => (rd'[g].pc = "blocked" /\ rd'[g].src = process)
                /\ NextLineOf(g).kind = "object"
                   => response_queue' = Append(response_queue, NextLineOf(g)) ]_vars

\* the child wrote two lines during the handshake and both were read: one is
\* the response in the queue, the other was dropped and the reader goes on
NoiseDroppedWitness ==
    /\ process = 1 /\ alive[1] /\ nlines = 2 /\ stdout[1] = <<>>
    /\ Len(response_queue) = 1
    /\ th[1].op = "start" /\ th[1].pc = "sr_get" /\ th[1].stale = 0
    /\ ReaderOnProcess

\* the reader thread of the current process ends in this step, at EOF, while
\* the object has not been stopped
ReaderSeesEOF ==
    /\ running /\ running' /\ process # 0 /\ process' = process
    /\ \E g \in Procs : /\ rd[g].pc = "blocked" /\ rd[g].src = process
                         /\ rd'[g].pc = "off"

\* C23: when the reader thread sees EOF on the stdout of the child of an object
\* that has not been stopped, the session is no longer initialized, and a
\* call_tool after it is rejected as not initialized
EOFEndsSession ==
    [][ /\ ReaderSeesEOF => ~initialized'
        /\ ( /\ UserCallTool(1)
             /\ running /\ process # 0
             /\ ~alive[process] /\ stdout[process] = <<>> )
           => (th'[1].pc = "idle" /\ th'[1].why = "notinit") ]_vars

\* C24: in a call_tool or list_tools started after the child has exited,
\* _send_request returns None at once (or the call is rejected as not
\* initialized), without waiting and without taking anything from the queue
DeadChildFailsFast ==
    [][ ( /\ process # 0 /\ ~alive[process]
          /\ UserCallTool(1) \/ UserListTools(1) )
        => /\ \/ th'[1].pc \in {"ct_ret", "lt_ret"} /\ th'[1].ret = None
              \/ th'[1].pc = "idle" /\ th'[1].why = "notinit"
                                    /\ th'[1].ret \in {None, Val("list", NoMsg)}
           /\ th'[1].elapsed = 0
           /\ response_queue' = response_queue
           /\ stdin' = stdin ]_vars

\* call_tool on an initialized session whose child has exited has failed in the
\* write, with a line of the child still in the queue
DeadChildFailsFastWitness ==
    /\ th[1].pc = "idle" /\ th[1].op = "call_tool"
    /\ th[1].why = "writefail" /\ th[1].ret = None
    /\ initialized /\ process # 0 /\ ~alive[process]
    /\ response_queue # <<>>

\* the message at position i of the queue has the id thread t waits for
MatchAt(t, i) == Matches(response_queue[i], th[t].expected)

\* C25: while the child is alive, the budget is not used up and a response with
\* the expected id is in the queue, each step of the wait loop either returns
\* the head of the queue, which has that id, or drops a head with another id and
\* stays in the loop with no time used; call_tool then returns the payload of
\* the response that was returned
MatchReturned ==
    [][ /\ ( /\ th[1].pc = "sr_get"
             /\ process # 0 /\ alive[process]
             /\ th[1].elapsed < TimeoutTicks
             /\ \E i \in 1..Len(response_queue) : MatchAt(1, i)
             /\ th'[1] # th[1] )
           => /\ response_queue' = Tail(response_queue)
              /\ IF MatchAt(1, 1)
                 THEN /\ th'[1].pc \in RetLabels
                      /\ th'[1].ret = Resp(Head(response_queue))
                 ELSE /\ th'[1].pc = "sr_get"
                      /\ th'[1].elapsed = th[1].elapsed
                      /\ th'[1].expected = th[1].expected
        /\ ( /\ th[1].pc = "ct_ret" /\ th[1].ret # None
             /\ th'[1] # th[1] /\ th'[1].ret # None )
           => /\ th'[1].ret.tag \in {"result", "errordict"}
              /\ th'[1].ret.msg = th[1].ret.msg ]_vars

\* _send_request has returned the response of a live child after it dropped a
\* message with another id
MatchReturnedWitness ==
    /\ th[1].pc \in RetLabels
    /\ th[1].ret # None /\ th[1].ret.tag = "response"
    /\ th[1].ret.msg.id = th[1].expected
    /\ th[1].stale # 0
    /\ process # 0 /\ alive[process]

\* call_tool returns in this step, having got a response from _send_request or None
CallToolReturns == th[1].pc = "ct_ret" /\ th'[1] # th[1]

\* C26: call_tool returns None exactly when _send_request returned None or the
\* response has neither a result nor an error member; a response with an error
\* member yields the error value, and search_cards returns it without a restart
NoneOnlyWithoutPayload ==
    [][ /\ CallToolReturns
           => /\ th'[1].ret = None <=> (th[1].ret = None \/ th'[1].why = "neither")
              /\ (th[1].ret # None /\ th'[1].why = "error")
                    => th'[1].ret = Val("errordict", th[1].ret.msg)
        /\ ( /\ th[1].pc = "sc_ret1" /\ th[1].ret # None
             /\ th[1].ret.tag = "errordict" /\ th'[1] # th[1] )
           => /\ th'[1].pc = "idle" /\ th'[1].ret = th[1].ret
              /\ th'[1].stops = 0 /\ th'[1].calls = 1 ]_vars

\* C26 as amended: call_tool returns None exactly when _send_request returned
\* None, or the response has neither a result nor an error member, or its result
\* member is null; a response with an error member and no result member yields
\* the error value, and search_cards returns it without a restart
NoneWithoutUsablePayload ==
    [][ /\ CallToolReturns
           => /\ th'[1].ret = None
                    <=> (th[1].ret = None \/ th'[1].why \in {"neither", "null"})
              /\ (th[1].ret # None /\ th'[1].why = "error")
                    => th'[1].ret = Val("errordict", th[1].ret.msg)
        /\ ( /\ th[1].pc = "sc_ret1" /\ th[1].ret # None
             /\ th[1].ret.tag = "errordict" /\ th'[1] # th[1] )
           => /\ th'[1].pc = "idle" /\ th'[1].ret = th[1].ret
              /\ th'[1].stops = 0 /\ th'[1].calls = 1 ]_vars

\* the first call of search_cards got a response whose result is null, and
\* call_tool has returned None
NoneWithoutUsablePayloadWitness ==
    /\ th[1].op = "search_cards" /\ th[1].pc = "sc_ret1"
    /\ th[1].ret = None /\ th[1].why = "null"
    /\ IsRunning

\* stop(), called by thread 2, has returned
StopReturned == th[2].pc = "idle" /\ th[2].op = "stop"

\* C27: once a stop() by another thread has returned, is_running() is false and
\* a call that is waiting in _send_request returns None no later than the end of
\* the wait slice it is in: it takes no message and starts no other slice
StopEndsWait ==
    [][ (StopReturned /\ th[1].pc = "sr_get" /\ th'[1] # th[1])
        => /\ ~IsRunning
           /\ \/ /\ th'[1].pc = "sr_get"
                 /\ th'[1].slice < th[1].slice
                 /\ response_queue' = response_queue
              \/ /\ th'[1].pc \in RetLabels
                 /\ th'[1].ret = None ]_vars

InRetry ==
    /\ th[1].pc = "sr_get"
    /\ Len(th[1].stack) >= 2 /\ th[1].stack[2] = "sc_ret2"

\* C29: after search_cards stopped the client, the start it runs constructs a new
\* MCPClient (empty inbox, id counter 0); the repeated tools/call, when it is
\* sent, has id 2 and follows the id-1 handshake on the new child's stdin; and
\* every message its wait loop takes from the inbox comes from the new child
RetryOnNewClient ==
    [][ /\ (th[1].pc = "sc_stopped" /\ th'[1] # th[1])
           => \/ th'[1].pc = "sc_restarted" /\ th'[1].ret = False
              \/ /\ th'[1].pc = "st_popen"
                 /\ request_id' = 0 /\ response_queue' = <<>>
        /\ (th[1].pc = "sc_restarted" /\ th'[1].pc = "sr_get")
           => /\ th'[1].reqid = 2
              /\ stdin' = <<Req(1, "initialize"), Req(0, "notifications/initialized"),
                            Req(2, "tools/call")>>
        /\ (InRetry /\ SRGet(1))
           => Head(response_queue).proc = process ]_vars

\* the repeated call returned the new child's response to the request with id 2
RetryOnNewClientWitness ==
    /\ th[1].pc = "sc_ret2"
    /\ th[1].stops = 1
    /\ process # 0
    /\ th[1].ret = Val("result", Msg(2, process))

\* _send_request waits, the child has exited and the response with the expected
\* id is in the inbox
MatchLeftByChild ==
    /\ th[1].pc = "sr_get"
    /\ Died
    /\ \E i \in 1..Len(response_queue) : MatchAt(1, i)

\* the step of _send_request takes the head of the inbox, returning it when it
\* matches and waiting on otherwise, and does not return for the dead child
TakesHead ==
    /\ response_queue' = Tail(response_queue)
    /\ th'[1].why # "died"
    /\ IF MatchAt(1, 1)
       THEN /\ th'[1].pc \in RetLabels
            /\ th'[1].ret = Resp(Head(response_queue))
       ELSE th'[1].pc = "sr_get"

\* _send_request returns for a dead child only from the end of a wait slice
\* with an empty inbox
DiedOnlyOnEmpty ==
    (th[1].pc = "sr_get" /\ th'[1].pc \in RetLabels /\ th'[1].why = "died")
      => /\ response_queue = <<>>
         /\ th[1].slice = 0
         /\ Died

\* C30 (as stated): while _send_request waits with the matching response in the
\* inbox and the child has exited, its next step takes the head of the inbox,
\* returning it when it matches and waiting on otherwise, so that it returns the
\* response and never None; the liveness is consulted only at the end of a
\* wait slice with an empty inbox
ResponseNotNone ==
    [][ /\ (MatchLeftByChild /\ th'[1] # th[1]) => TakesHead
        /\ DiedOnlyOnEmpty ]_vars

\* C30 (amended): the same, for a call whose timeout budget is not exhausted when
\* it takes a message; with the budget exhausted a message that precedes the
\* response is dropped and the call returns None for the timeout
QueueBeforeLiveness ==
    [][ /\ (MatchLeftByChild /\ th'[1] # th[1])
           => IF th[1].elapsed < TimeoutTicks \/ MatchAt(1, 1)
              THEN TakesHead
              ELSE /\ response_queue' = Tail(response_queue)
                   /\ th'[1].pc \in RetLabels
                   /\ th'[1].ret = None /\ th'[1].why = "timeout"
        /\ DiedOnlyOnEmpty ]_vars

\* _send_request has returned the matching response, which it took from the
\* inbox after the child had exited
QueueBeforeLivenessWitness ==
    /\ th[1].pc \in RetLabels
    /\ th[1].ret # None /\ th[1].ret.tag = "response"
    /\ th[1].ret.msg.id = th[1].expected
    /\ th[1].gone
    /\ process # 0 /\ ~alive[process]

=============================================================================
